---- MODULE Spec2Model ----
(***************************************************************************)
(* Model of src/app.py: the contact manager's field validators, Record,    *)
(* AddressBook, the command handlers wrapped by input_error, and the       *)
(* command loop of main().                                                 *)
(*                                                                         *)
(* Strings.  A user-supplied token (a name, a phone, a date) is a sequence *)
(* of one-character strings, so that len(), isdigit(), lower() and         *)
(* strptime() are computed character by character.  A text produced by the *)
(* program is a sequence of pieces: the literals of the source, each one   *)
(* piece, and the characters of the tokens spliced into it; f-strings and  *)
(* str.join are concatenation (\o).  Tokens come from str.split(), so they *)
(* are non-empty and hold no white space, and no token can spell a literal *)
(* piece.                                                                  *)
(*                                                                         *)
(* Exceptions.  An operation that can raise returns a record whose exc     *)
(* field is NoExc or the exception's message, next to the state it had     *)
(* reached when it raised (Python keeps the mutations made before a        *)
(* raise).                                                                 *)
(***************************************************************************)
EXTENDS Integers, Sequences, FiniteSets, TLC

VARIABLES
    book,      \* book.contacts of main(): sequence of Records
    pc,        \* position of main(): "prompt" (at input()), "shown" (the
               \* command's output displayed), "done" (after break), "crashed"
    disk,      \* content of addressbook.pkl: <<>> when absent, else <<contacts>>
    lastCmd,   \* command word of the input line of this iteration ("" when
               \* none was read yet or the line was empty)
    lastArgs,  \* args of that line
    prevBook,  \* book.contacts as it was when the line was read
    result     \* what the command handed to the view

vars == <<book, pc, disk, lastCmd, lastArgs, prevBook, result>>

----------------------------------------------------------------------------
(* Characters and tokens *)

Digits == {"0", "1", "2", "3", "4", "5", "6", "7", "8", "9"}

\* int() of one decimal digit
DigitVal(c) ==
    CASE c = "0" -> 0 [] c = "1" -> 1 [] c = "2" -> 2 [] c = "3" -> 3
      [] c = "4" -> 4 [] c = "5" -> 5 [] c = "6" -> 6 [] c = "7" -> 7
      [] c = "8" -> 8 [] c = "9" -> 9

\* str.isdigit(): non-empty and every character a digit (the tokens tried are
\* ASCII, where the digits of isdigit and of the \d of strptime coincide)
isdigit(s) == Len(s) > 0 /\ \A i \in 1..Len(s) : s[i] \in Digits

\* int() of a string of decimal digits
RECURSIVE IntOf(_)
IntOf(s) ==
    IF Len(s) = 0 THEN 0
    ELSE 10 * IntOf(SubSeq(s, 1, Len(s) - 1)) + DigitVal(s[Len(s)])

\* str.lower() on one character (ASCII letters of the alphabet in use)
LowerChar(c) ==
    CASE c = "A" -> "a" [] c = "B" -> "b" [] c = "L" -> "l" [] c = "O" -> "o"
      [] OTHER -> c

\* str.lower()
lower(s) == [i \in 1..Len(s) |-> LowerChar(s[i])]

\* str() of one decimal digit
CharOf(n) == CHOOSE c \in Digits : DigitVal(c) = n

\* n written with exactly w decimal digits, zero padded (strftime %d, %m, %Y)
RECURSIVE Padded(_, _)
Padded(n, w) ==
    IF w = 0 THEN <<>> ELSE Padded(n \div 10, w - 1) \o <<CharOf(n % 10)>>

----------------------------------------------------------------------------
(* Exceptions *)

NoExc == <<>>
None == <<>>

MsgPhoneFormat == <<"Phone number must be a 10-digit number.">>
MsgDateFormat == <<"Invalid date format. Use DD.MM.YYYY">>
MsgPhoneExists == <<"Phone number already exists.">>

----------------------------------------------------------------------------
(* Field validators *)

PhoneLen == 10

\* Phone.__init__: the stored value, or the ValueError
Phone(value) ==
    IF Len(value) # PhoneLen \/ ~isdigit(value)
    THEN [exc |-> MsgPhoneFormat, value |-> None]
    ELSE [exc |-> NoExc, value |-> value]

\* calendar.isleap
isleap(y) == y % 4 = 0 /\ (y % 100 # 0 \/ y % 400 = 0)

\* days in month m of year y, as datetime's constructor checks them
DaysInMonth(y, m) ==
    IF m = 2 THEN (IF isleap(y) THEN 29 ELSE 28)
    ELSE IF m \in {4, 6, 9, 11} THEN 30 ELSE 31

\* the directive %d of strptime: 3[0-1] | [1-2]\d | 0[1-9] | [1-9]
MatchDay(s) ==
    /\ isdigit(s)
    /\ \/ Len(s) = 2 /\ IntOf(s) \in 1..31
       \/ Len(s) = 1 /\ IntOf(s) \in 1..9

\* the directive %m of strptime: 1[0-2] | 0[1-9] | [1-9]
MatchMonth(s) ==
    /\ isdigit(s)
    /\ \/ Len(s) = 2 /\ IntOf(s) \in 1..12
       \/ Len(s) = 1 /\ IntOf(s) \in 1..9

\* the directive %Y of strptime: \d\d\d\d
MatchYear(s) == Len(s) = 4 /\ isdigit(s)

\* the ways value splits as <day>.<month>.<year> with nothing left over:
\* pairs <<ld, lm>> of the lengths of the day and the month
DateSplits(value) ==
    {p \in (1..2) \X (1..2) :
        /\ Len(value) = p[1] + p[2] + 6
        /\ MatchDay(SubSeq(value, 1, p[1]))
        /\ value[p[1] + 1] = "."
        /\ MatchMonth(SubSeq(value, p[1] + 2, p[1] + 1 + p[2]))
        /\ value[p[1] + p[2] + 2] = "."
        /\ MatchYear(SubSeq(value, p[1] + p[2] + 3, Len(value)))}

\* datetime.strptime(value, "%d.%m.%Y"): <<d, m, y>>, or None for ValueError
\* (no match, unconverted data, year 0, day out of range for the month)
strptime(value) ==
    LET splits == DateSplits(value)
    IN
    IF splits = {} THEN None
    ELSE LET p == CHOOSE q \in splits : TRUE
             d == IntOf(SubSeq(value, 1, p[1]))
             m == IntOf(SubSeq(value, p[1] + 2, p[1] + 1 + p[2]))
             y == IntOf(SubSeq(value, p[1] + p[2] + 3, Len(value)))
         IN  IF y < 1 \/ d > DaysInMonth(y, m) THEN None ELSE <<d, m, y>>

\* Birthday.__init__: the stored date, or the ValueError
Birthday(value) ==
    LET parsed == strptime(value)
    IN  IF parsed = None
        THEN [exc |-> MsgDateFormat, value |-> None]
        ELSE [exc |-> NoExc, value |-> parsed]

\* birthday.value.strftime('%d.%m.%Y')
strftime(date) ==
    Padded(date[1], 2) \o <<".">> \o Padded(date[2], 2) \o <<".">>
        \o Padded(date[3], 4)

----------------------------------------------------------------------------
(* Record and AddressBook *)

\* Record.__init__
Record(name) == [name |-> name, phones |-> <<>>, birthday |-> None]

\* Record.add_phone without the loop over self.phones
Record_add_phone_nocheck(rec, value) ==
    LET phone == Phone(value)
    IN  IF phone.exc # NoExc
        THEN [exc |-> phone.exc, rec |-> rec]
        ELSE [exc |-> NoExc,
              rec |-> [rec EXCEPT !.phones = Append(@, phone.value)]]

\* Record.add_phone comparing the value with the newest phone only
Record_add_phone_lastonly(rec, value) ==
    IF Len(rec.phones) > 0 /\ rec.phones[Len(rec.phones)] = value
    THEN [exc |-> MsgPhoneExists, rec |-> rec]
    ELSE Record_add_phone_nocheck(rec, value)

\* Record.add_phone: the record afterwards, and the ValueError if one is raised
Record_add_phone(rec, value) ==
    IF \E i \in 1..Len(rec.phones) : rec.phones[i] = value
    THEN [exc |-> MsgPhoneExists, rec |-> rec]
    ELSE LET phone == Phone(value)
         IN  IF phone.exc # NoExc
             THEN [exc |-> phone.exc, rec |-> rec]
             ELSE [exc |-> NoExc,
                   rec |-> [rec EXCEPT !.phones = Append(@, phone.value)]]

\* Record.add_birthday
Record_add_birthday(rec, value) ==
    LET birthday == Birthday(value)
    IN  IF birthday.exc # NoExc
        THEN [exc |-> birthday.exc, rec |-> rec]
        ELSE [exc |-> NoExc, rec |-> [rec EXCEPT !.birthday = birthday.value]]

\* AddressBook.add_record
add_record(contacts, record) == Append(contacts, record)

\* AddressBook.find comparing the names as they are
find_casesens(contacts, name) ==
    LET hits == {i \in 1..Len(contacts) : contacts[i].name = name}
    IN  IF hits = {} THEN 0 ELSE CHOOSE i \in hits : \A j \in hits : i <= j

\* AddressBook.find lowering the stored name only
find_halflower(contacts, name) ==
    LET hits == {i \in 1..Len(contacts) : lower(contacts[i].name) = name}
    IN  IF hits = {} THEN 0 ELSE CHOOSE i \in hits : \A j \in hits : i <= j

\* AddressBook.find: the index of the first record whose name matches,
\* 0 for None
find(contacts, name) ==
    LET hits == {i \in 1..Len(contacts) : lower(contacts[i].name) = lower(name)}
    IN  IF hits = {} THEN 0 ELSE CHOOSE i \in hits : \A j \in hits : i <= j

----------------------------------------------------------------------------
(* Command handlers.  Each returns [book, exc, value]: the contacts after  *)
(* the call, the exception that left it (NoExc if none) and the value      *)
(* returned, [kind |-> "str", val |-> text] or [kind |-> "list", ...].     *)

Str(text) == [kind |-> "str", val |-> text]
NoValue == [kind |-> "none", val |-> <<>>]

Return(contacts, value) == [book |-> contacts, exc |-> NoExc, value |-> value]
Raise(contacts, e) == [book |-> contacts, exc |-> e, value |-> NoValue]

ErrorPrefix == <<"Error: ">>

\* input_error letting the exception through
input_error_reraise(r) == r

\* input_error returning str(e) alone
input_error_bare(r) ==
    IF r.exc # NoExc THEN Return(r.book, Str(r.exc)) ELSE r

\* the decorator input_error: any exception becomes the text f"Error: {e}"
input_error(r) ==
    IF r.exc # NoExc THEN Return(r.book, Str(ErrorPrefix \o r.exc)) ELSE r

\* ', '.join(phones)
RECURSIVE JoinComma(_)
JoinComma(phones) ==
    IF Len(phones) = 0 THEN <<>>
    ELSE IF Len(phones) = 1 THEN phones[1]
    ELSE phones[1] \o <<", ">> \o JoinComma(Tail(phones))

UsageAdd == <<"Invalid command. Use 'add [name] [phone]'.">>
UsageChange == <<"Invalid command. Please use 'change [name] [new_phone]'.">>
UsagePhone == <<"Invalid command. Use 'phone [name]'.">>
UsageAddBirthday == <<"Invalid command. Use 'add-birthday [name] [date]'.">>
UsageShowBirthday == <<"Invalid command. Use 'show-birthday [name]'.">>

NotFound(name) == <<"Contact ">> \o name \o <<" not found.">>

\* add_contact
add_contact(args, contacts) ==
    input_error(
        IF Len(args) < 2 THEN Return(contacts, Str(UsageAdd))
        ELSE LET name == args[1]
                 phone == args[2]
                 i == find(contacts, name)
                 created == IF i = 0 THEN add_record(contacts, Record(name))
                            ELSE contacts
                 k == IF i = 0 THEN Len(created) ELSE i
                 message == IF i = 0 THEN <<"Contact added.">>
                            ELSE <<"Contact updated.">>
             IN  IF phone # <<>>
                 THEN LET a == Record_add_phone(created[k], phone)
                          after == [created EXCEPT ![k] = a.rec]
                      IN  IF a.exc # NoExc THEN Raise(after, a.exc)
                          ELSE Return(after,
                                   Str(message \o <<" Phone number: ">> \o phone))
                 ELSE Return(created, Str(message)))

\* change_contact without record.phones = []
change_contact_noclear(args, contacts) ==
    input_error(
        IF Len(args) # 2 THEN Return(contacts, Str(UsageChange))
        ELSE LET name == args[1]
                 new_phone == args[2]
                 i == find(contacts, name)
             IN  IF i # 0
                 THEN LET a == Record_add_phone(contacts[i], new_phone)
                          after == [contacts EXCEPT ![i] = a.rec]
                      IN  IF a.exc # NoExc THEN Raise(after, a.exc)
                          ELSE Return(after,
                                   Str(<<"Phone number changed for ">> \o name
                                           \o <<".">>))
                 ELSE Return(contacts, Str(NotFound(name))))

\* change_contact constructing Phone(new_phone) before record.phones = []
change_contact_validate_first(args, contacts) ==
    input_error(
        IF Len(args) # 2 THEN Return(contacts, Str(UsageChange))
        ELSE LET name == args[1]
                 new_phone == args[2]
                 i == find(contacts, name)
             IN  IF i # 0
                 THEN LET cleared == [contacts[i] EXCEPT !.phones = <<>>]
                          a == Record_add_phone(cleared, new_phone)
                          after == [contacts EXCEPT ![i] = a.rec]
                      IN  IF Phone(new_phone).exc # NoExc
                          THEN Raise(contacts, Phone(new_phone).exc)
                          ELSE Return(after,
                                   Str(<<"Phone number changed for ">> \o name
                                           \o <<".">>))
                 ELSE Return(contacts, Str(NotFound(name))))

\* change_contact
change_contact(args, contacts) ==
    input_error(
        IF Len(args) # 2 THEN Return(contacts, Str(UsageChange))
        ELSE LET name == args[1]
                 new_phone == args[2]
                 i == find(contacts, name)
             IN  IF i # 0
                 THEN LET cleared == [contacts[i] EXCEPT !.phones = <<>>]
                          a == Record_add_phone(cleared, new_phone)
                          after == [contacts EXCEPT ![i] = a.rec]
                      IN  IF a.exc # NoExc THEN Raise(after, a.exc)
                          ELSE Return(after,
                                   Str(<<"Phone number changed for ">> \o name
                                           \o <<".">>))
                 ELSE Return(contacts, Str(NotFound(name))))

\* show_phone
show_phone(args, contacts) ==
    input_error(
        IF Len(args) # 1 THEN Return(contacts, Str(UsagePhone))
        ELSE LET name == args[1]
                 i == find(contacts, name)
             IN  IF i # 0 /\ contacts[i].phones # <<>>
                 THEN Return(contacts,
                          Str(name \o <<"'s phone number is: ">>
                                  \o JoinComma(contacts[i].phones)))
                 ELSE IF i # 0
                 THEN Return(contacts,
                          Str(name \o <<" doesn't have a phone number set.">>))
                 ELSE Return(contacts, Str(NotFound(name))))

\* show_all_contacts
show_all_contacts(contacts) ==
    input_error(Return(contacts, [kind |-> "list", val |-> contacts]))

\* add_birthday
add_birthday(args, contacts) ==
    input_error(
        IF Len(args) # 2 THEN Return(contacts, Str(UsageAddBirthday))
        ELSE LET name == args[1]
                 date == args[2]
                 i == find(contacts, name)
             IN  IF i # 0
                 THEN LET a == Record_add_birthday(contacts[i], date)
                          after == [contacts EXCEPT ![i] = a.rec]
                      IN  IF a.exc # NoExc THEN Raise(after, a.exc)
                          ELSE Return(after,
                                   Str(<<"Birthday added for ">> \o name
                                           \o <<".">>))
                 ELSE Return(contacts, Str(NotFound(name))))

\* show_birthday
show_birthday(args, contacts) ==
    input_error(
        IF Len(args) # 1 THEN Return(contacts, Str(UsageShowBirthday))
        ELSE LET name == args[1]
                 i == find(contacts, name)
             IN  IF i # 0 /\ contacts[i].birthday # None
                 THEN Return(contacts,
                          Str(name \o <<"'s birthday is: ">>
                                  \o strftime(contacts[i].birthday)))
                 ELSE IF i # 0
                 THEN Return(contacts,
                          Str(name \o <<" doesn't have a birthday set.">>))
                 ELSE Return(contacts, Str(NotFound(name))))

\* the lines "name: date" of birthdays(), joined by "\n"
RECURSIVE BirthdayLines(_)
BirthdayLines(contacts) ==
    IF Len(contacts) = 0 THEN <<>>
    ELSE LET c == contacts[1]
             rest == BirthdayLines(Tail(contacts))
             line == c.name \o <<": ">> \o strftime(c.birthday)
         IN  IF c.birthday = None THEN rest
             ELSE IF rest = <<>> THEN line
             ELSE line \o <<"\n">> \o rest

\* birthdays
birthdays(contacts) ==
    input_error(
        LET all_birthdays == BirthdayLines(contacts)
        IN  IF all_birthdays # <<>>
            THEN Return(contacts, Str(all_birthdays))
            ELSE Return(contacts, Str(<<"No birthdays found.">>)))

\* help_command
help_command == <<"hello - Greetings from the bot", "\n",
    "add [name] [phone] - Add a contact with a phone number", "\n",
    "change [name] [new_phone] - Change the phone number of an existing contact",
    "\n", "phone [name] - Show the phone number of a contact", "\n",
    "all - Show all contacts", "\n",
    "add-birthday [name] [date] - Add a birthday to a contact", "\n",
    "show-birthday [name] - Show the birthday of a contact", "\n",
    "birthdays - Show all birthdays", "\n",
    "close, exit - Exit the program", "\n",
    "help - Show this help message">>

\* load_data: the saved contacts, or a new AddressBook when the file is absent
load_data(file) == IF file = <<>> THEN <<>> ELSE file[1]

----------------------------------------------------------------------------
(* Input lines *)

\* longest argument list tried
MaxArgs == 3

Names == {<<"A", "l">>, <<"a", "L">>, <<"B", "o">>, <<"b", "o">>}

Phone1 == <<"1", "2", "3", "4", "5", "6", "7", "8", "9", "0">>
Phone2 == <<"0", "9", "8", "7", "6", "5", "4", "3", "2", "1">>

PhoneTokens ==
    { Phone1, Phone2,
      <<"1", "2", "3">>,
      <<"1", "2", "3", "4", "5", "6", "7", "8", "9", "0", "1">>,
      <<"1", "2", "3", "4", "5", "a", "b", "c", "d", "e">> }

Date1 == <<"0", "1", ".", "0", "2", ".", "1", "9", "9", "0">>
Date1Short == <<"1", ".", "2", ".", "1", "9", "9", "0">>
Date2 == <<"2", "9", ".", "0", "2", ".", "2", "0", "0", "0">>

DateTokens ==
    { Date1, Date1Short, Date2,
      <<"2", "9", ".", "0", "2", ".", "1", "9", "0", "0">>,
      <<"3", "1", ".", "0", "4", ".", "1", "9", "9", "0">>,
      <<"0", "1", ".", "1", "3", ".", "1", "9", "9", "0">>,
      <<"0", "1", ".", "0", "2", ".", "0", "0", "0", "0">>,
      <<"0", "1", ".", "0", "2", ".", "9", "0">>,
      <<"0", "1", "-", "0", "2", "-", "1", "9", "9", "0">> }

ExtraToken == <<"x">>

\* the argument lists tried: every list of at most two tokens name, value,
\* and the lists of up to MaxArgs tokens that go on after name, long
ArgLists(values, long) ==
    {SubSeq(<<n, v>>, 1, k) : n \in Names, v \in values, k \in 0..2}
    \cup {<<n, long>> \o [i \in 1..k |-> ExtraToken] :
              n \in Names, k \in 1..(MaxArgs - 2)}

----------------------------------------------------------------------------
(* main() *)

Init ==
    /\ disk = <<>>
    /\ book = load_data(disk)
    /\ pc = "prompt"
    /\ lastCmd = ""
    /\ lastArgs = <<>>
    /\ prevBook = <<>>
    /\ result = NoValue

\* view.display_message(handler(args, book)) / view.display_contacts(...):
\* an exception that leaves the handler leaves main() too
Dispatch(cmd, args, r) ==
    /\ lastCmd' = cmd
    /\ lastArgs' = args
    /\ prevBook' = book
    /\ book' = r.book
    /\ IF r.exc # NoExc
       THEN pc' = "crashed" /\ result' = [kind |-> "exc", val |-> r.exc]
       ELSE pc' = "shown" /\ result' = r.value
    /\ UNCHANGED disk

\* a command that only displays a fixed text
Say(cmd, text) ==
    /\ pc = "prompt"
    /\ pc' = "shown"
    /\ lastCmd' = cmd
    /\ lastArgs' = <<>>
    /\ prevBook' = book
    /\ result' = Str(text)
    /\ UNCHANGED <<book, disk>>

\* the loop comes round to input(): command, args and the value displayed
\* belong to the iteration that ended
NextInput ==
    /\ pc = "shown"
    /\ pc' = "prompt"
    /\ lastCmd' = ""
    /\ lastArgs' = <<>>
    /\ prevBook' = book
    /\ result' = NoValue
    /\ UNCHANGED <<book, disk>>

CmdEmpty == Say("", <<"You didn't enter any command.">>)

CmdClose ==
    /\ pc = "prompt"
    /\ disk' = <<book>>
    /\ pc' = "done"
    /\ lastCmd' = "close"
    /\ lastArgs' = <<>>
    /\ prevBook' = book
    /\ result' = Str(<<"Goodbye!">>)
    /\ UNCHANGED book

CmdHello == Say("hello", <<"How can I help you?">>)

CmdAdd ==
    /\ pc = "prompt"
    /\ \E args \in ArgLists(PhoneTokens, Phone1) :
           Dispatch("add", args, add_contact(args, book))

CmdChange ==
    /\ pc = "prompt"
    /\ \E args \in ArgLists(PhoneTokens, Phone1) :
           Dispatch("change", args, change_contact(args, book))

CmdPhone ==
    /\ pc = "prompt"
    /\ \E args \in ArgLists({ExtraToken}, ExtraToken) :
           Dispatch("phone", args, show_phone(args, book))

CmdAll ==
    /\ pc = "prompt"
    /\ Dispatch("all", <<>>, show_all_contacts(book))

CmdAddBirthday ==
    /\ pc = "prompt"
    /\ \E args \in ArgLists(DateTokens, Date1) :
           Dispatch("add-birthday", args, add_birthday(args, book))

CmdShowBirthday ==
    /\ pc = "prompt"
    /\ \E args \in ArgLists({ExtraToken}, ExtraToken) :
           Dispatch("show-birthday", args, show_birthday(args, book))

CmdBirthdays ==
    /\ pc = "prompt"
    /\ Dispatch("birthdays", <<>>, birthdays(book))

CmdHelp == Say("help", help_command)

CmdInvalid ==
    Say("?", <<"Invalid command. Type 'help' to see the list of available commands.">>)

Next ==
    \/ CmdEmpty
    \/ CmdClose
    \/ CmdHello
    \/ CmdAdd
    \/ CmdChange
    \/ CmdPhone
    \/ CmdAll
    \/ CmdAddBirthday
    \/ CmdShowBirthday
    \/ CmdBirthdays
    \/ CmdHelp
    \/ CmdInvalid
    \/ NextInput

Spec == Init /\ [][Next]_vars

----------------------------------------------------------------------------
(* Vocabulary of the properties.  These say what the inputs are, from the  *)
(* input line alone and the address book as it was when the line was read. *)

\* the result is the text "Error: " followed by msg
IsError(msg) == result.kind = "str" /\ result.val = <<"Error: ">> \o msg

\* the result is a text that starts "Error: " and goes on
IsErrorText ==
    /\ result.kind = "str"
    /\ Len(result.val) > 1
    /\ result.val[1] = "Error: "

\* the result is exactly this text
IsText(text) == result.kind = "str" /\ result.val = text

\* the records of contacts whose name equals name case-insensitively
Matches(contacts, name) ==
    {i \in 1..Len(contacts) : lower(contacts[i].name) = lower(name)}

\* the first of them (when there is one)
FirstMatch(contacts, name) ==
    CHOOSE i \in Matches(contacts, name) :
        \A j \in Matches(contacts, name) : i <= j

\* exactly 10 characters, all decimal digits
TenDigits(p) == Len(p) = 10 /\ \A i \in 1..Len(p) : p[i] \in Digits

\* DD.MM.YYYY: two digits, a dot, two digits, a dot, four digits, naming a
\* day of the calendar
IsDDMMYYYY(s) ==
    /\ Len(s) = 10
    /\ s[3] = "." /\ s[6] = "."
    /\ \A i \in {1, 2, 4, 5, 7, 8, 9, 10} : s[i] \in Digits
    /\ LET d == 10 * DigitVal(s[1]) + DigitVal(s[2])
           m == 10 * DigitVal(s[4]) + DigitVal(s[5])
           y == 1000 * DigitVal(s[7]) + 100 * DigitVal(s[8])
                    + 10 * DigitVal(s[9]) + DigitVal(s[10])
           leap == y % 4 = 0 /\ (y % 100 # 0 \/ y % 400 = 0)
           last == CASE m \in {1, 3, 5, 7, 8, 10, 12} -> 31
                     [] m \in {4, 6, 9, 11} -> 30
                     [] m = 2 -> IF leap THEN 29 ELSE 28
                     [] OTHER -> 0
       IN  y >= 1 /\ m \in 1..12 /\ d \in 1..last

\* the date a DD.MM.YYYY string names, as <<day, month, year>>
DateOf(s) ==
    << 10 * DigitVal(s[1]) + DigitVal(s[2]),
       10 * DigitVal(s[4]) + DigitVal(s[5]),
       1000 * DigitVal(s[7]) + 100 * DigitVal(s[8])
           + 10 * DigitVal(s[9]) + DigitVal(s[10]) >>

\* the records other than i are what they were, and none came or went
OthersUnchanged(i) ==
    /\ Len(book) = Len(prevBook)
    /\ \A j \in 1..Len(prevBook) : j # i => book[j] = prevBook[j]

\* the last line was add with a name and a phone
AddCase == lastCmd = "add" /\ Len(lastArgs) >= 2

\* the last line was change with exactly a name and a phone
ChangeCase == lastCmd = "change" /\ Len(lastArgs) = 2

\* the last line was add-birthday with exactly a name and a date
AddBirthdayCase == lastCmd = "add-birthday" /\ Len(lastArgs) = 2

\* the name of the last line matched a record
NameFound == Matches(prevBook, lastArgs[1]) # {}

\* the record it matched
Hit == FirstMatch(prevBook, lastArgs[1])

\* the phone of the last add is one its record held
DuplicatePhone ==
    /\ NameFound
    /\ \E k \in 1..Len(prevBook[Hit].phones) :
           prevBook[Hit].phones[k] = lastArgs[2]

----------------------------------------------------------------------------
(* C1 *)

\* C1: an add command whose phone is rejected (not ten digits, or already in
\* the record) leaves the address book exactly as it was, also when the name
\* matched no record.
C1_AddFailureLeavesBook ==
    (AddCase /\ (~TenDigits(lastArgs[2]) \/ DuplicatePhone))
        => book = prevBook

----------------------------------------------------------------------------
(* C2 *)

\* C2: change on an existing record with a phone that fails validation
\* returns an error text and leaves the record with no phone, its name and
\* birthday and every other record as they were.
C2_FailedChangeEmptiesPhones ==
    (ChangeCase /\ NameFound /\ ~TenDigits(lastArgs[2]))
        => /\ IsErrorText
           /\ OthersUnchanged(Hit)
           /\ book[Hit].phones = <<>>
           /\ book[Hit].name = prevBook[Hit].name
           /\ book[Hit].birthday = prevBook[Hit].birthday

\* a failed change has emptied a record that held two phones and a birthday,
\* in a book of two records
C2_Witness ==
    /\ ChangeCase /\ NameFound /\ ~TenDigits(lastArgs[2])
    /\ Len(prevBook) = 2
    /\ Len(prevBook[Hit].phones) = 2
    /\ prevBook[Hit].birthday # None
    /\ book[Hit].phones = <<>>

----------------------------------------------------------------------------
(* C3 *)

\* C3: add-birthday on an existing record: a date that is not a valid
\* DD.MM.YYYY date gives an error text and leaves the whole book as it was;
\* a valid one becomes the record's birthday, whatever it was before, and
\* nothing else changes.
C3_AddBirthdayAllOrNothing ==
    (AddBirthdayCase /\ NameFound)
        => IF IsDDMMYYYY(lastArgs[2])
           THEN /\ book[Hit].birthday = DateOf(lastArgs[2])
                /\ book[Hit].name = prevBook[Hit].name
                /\ book[Hit].phones = prevBook[Hit].phones
                /\ OthersUnchanged(Hit)
           ELSE IsErrorText /\ book = prevBook

\* C3, what the code guarantees: a date that strptime rejects gives the
\* error text and leaves the whole book as it was.
C3_RejectedDateLeavesBook ==
    (AddBirthdayCase /\ NameFound /\ strptime(lastArgs[2]) = None)
        => IsError(MsgDateFormat) /\ book = prevBook

----------------------------------------------------------------------------
(* C4 *)

HandlerCmds ==
    {"add", "change", "phone", "all", "add-birthday", "show-birthday",
     "birthdays"}

\* C4: no exception leaves a handler: main() never stops on one, and after
\* each handler command the view was handed a text or the record list and
\* the loop goes on to its next input().
C4_NoErrorEscapes ==
    /\ pc # "crashed"
    /\ lastCmd \in HandlerCmds
           => pc = "shown" /\ result.kind \in {"str", "list"}

\* a handler raised (a malformed phone, a duplicate, a rejected date) and the
\* loop goes on with the error text displayed
C4_Witness ==
    /\ pc = "shown"
    /\ \/ AddCase /\ DuplicatePhone /\ IsError(MsgPhoneExists)
       \/ ChangeCase /\ NameFound /\ IsError(MsgPhoneFormat)
       \/ AddBirthdayCase /\ NameFound /\ IsError(MsgDateFormat)

----------------------------------------------------------------------------
(* C5 *)

\* a validation failure: a handler raised on a malformed phone, a duplicate
\* phone or a date that Birthday rejects
ValidationFailure ==
    \/ AddCase /\ (~TenDigits(lastArgs[2]) \/ DuplicatePhone)
    \/ ChangeCase /\ NameFound /\ ~TenDigits(lastArgs[2])
    \/ AddBirthdayCase /\ NameFound /\ strptime(lastArgs[2]) = None

\* a usage failure: the wrong number of arguments
UsageFailure ==
    \/ lastCmd = "add" /\ Len(lastArgs) < 2
    \/ lastCmd \in {"change", "add-birthday"} /\ Len(lastArgs) # 2
    \/ lastCmd \in {"phone", "show-birthday"} /\ Len(lastArgs) # 1

\* the usage text of each command
UsageText ==
    CASE lastCmd = "add" -> UsageAdd
      [] lastCmd = "change" -> UsageChange
      [] lastCmd = "phone" -> UsagePhone
      [] lastCmd = "add-birthday" -> UsageAddBirthday
      [] lastCmd = "show-birthday" -> UsageShowBirthday

\* the message of each validation failure
ValidationMessage ==
    CASE lastCmd = "add" /\ DuplicatePhone -> MsgPhoneExists
      [] lastCmd = "add-birthday" -> MsgDateFormat
      [] OTHER -> MsgPhoneFormat

\* C5 as stated: a validation failure and a usage failure both give a text
\* of the form "Error: <description>".
C5_AllFailuresErrorText ==
    (ValidationFailure \/ UsageFailure) => IsErrorText

\* C5 amended: a validation failure gives "Error: " followed by the message
\* of the ValueError; a usage failure gives the command's own text
\* "Invalid command. ..." with no "Error: " before it.
C5_FailureTexts ==
    /\ ValidationFailure => IsError(ValidationMessage)
    /\ UsageFailure => IsText(UsageText) /\ ~IsErrorText

\* a rejected date was reported as "Error: Invalid date format. Use DD.MM.YYYY"
C5_Witness ==
    /\ AddBirthdayCase /\ NameFound /\ strptime(lastArgs[2]) = None
    /\ IsError(MsgDateFormat)

----------------------------------------------------------------------------
(* C6 *)

\* C6: change naming an existing record with a ten-digit phone leaves that
\* record with exactly that one phone, whatever it held before; change naming
\* no record answers "Contact <name> not found." and changes nothing.
C6_ChangeReplacesPhones ==
    ChangeCase =>
        IF NameFound
        THEN TenDigits(lastArgs[2])
                 => /\ book[Hit].phones = <<lastArgs[2]>>
                    /\ book[Hit].name = prevBook[Hit].name
                    /\ book[Hit].birthday = prevBook[Hit].birthday
                    /\ OthersUnchanged(Hit)
        ELSE /\ IsText(<<"Contact ">> \o lastArgs[1] \o <<" not found.">>)
             /\ book = prevBook

\* change replaced two phones, the new phone among them, by the new phone
C6_Witness ==
    /\ ChangeCase /\ NameFound /\ TenDigits(lastArgs[2])
    /\ Len(prevBook[Hit].phones) = 2
    /\ prevBook[Hit].phones[1] = lastArgs[2]
    /\ book[Hit].phones = <<lastArgs[2]>>

----------------------------------------------------------------------------
(* C7 *)

\* C7: adding to a record a phone it already holds fails with
\* "Phone number already exists." and leaves the record's phone list as it
\* was.
C7_DuplicateAddRejected ==
    (AddCase /\ DuplicatePhone)
        => /\ IsError(MsgPhoneExists)
           /\ book[Hit].phones = prevBook[Hit].phones

\* the first of two phones was added again and refused
C7_Witness ==
    /\ AddCase /\ DuplicatePhone
    /\ Len(prevBook[Hit].phones) = 2
    /\ prevBook[Hit].phones[1] = lastArgs[2]
    /\ IsError(MsgPhoneExists)
    /\ book = prevBook

----------------------------------------------------------------------------
(* C8 *)

\* the last add succeeded: a ten-digit phone its record did not hold
AddSucceeds == AddCase /\ TenDigits(lastArgs[2]) /\ ~DuplicatePhone

\* C8: a successful add whose name matches a record case-insensitively
\* appends the phone to the first such record, creates none and answers
\* "Contact updated. Phone number: <phone>"; otherwise it appends one record
\* of that name holding that phone and answers "Contact added. Phone number:
\* <phone>".  No command removes or moves a record.
C8_AddFindsOrCreates ==
    /\ AddSucceeds =>
           IF NameFound
           THEN /\ book = [prevBook EXCEPT
                              ![Hit].phones = Append(@, lastArgs[2])]
                /\ IsText(<<"Contact updated.", " Phone number: ">>
                              \o lastArgs[2])
           ELSE /\ book = Append(prevBook,
                              [name |-> lastArgs[1],
                               phones |-> <<lastArgs[2]>>,
                               birthday |-> None])
                /\ IsText(<<"Contact added.", " Phone number: ">>
                              \o lastArgs[2])
    /\ Len(book) >= Len(prevBook)
    /\ \A i \in 1..Len(prevBook) : book[i].name = prevBook[i].name

\* add under another spelling of the name of the second record appended a
\* second phone to it
C8_Witness ==
    /\ AddSucceeds /\ NameFound
    /\ Hit = 2
    /\ prevBook[Hit].name # lastArgs[1]
    /\ Len(book) = 2
    /\ Len(book[Hit].phones) = 2
    /\ book[Hit].phones[2] = lastArgs[2]

----------------------------------------------------------------------------
(* C9 *)

\* C9: no record ever holds the same phone value twice.
C9_NoDuplicatePhones ==
    \A r \in 1..Len(book) :
        \A i, j \in 1..Len(book[r].phones) :
            i # j => book[r].phones[i] # book[r].phones[j]

\* a record holds two phones and the attempt to add the first of them again
\* was the last command
C9_Witness ==
    /\ lastCmd = "add" /\ Len(lastArgs) = 2
    /\ \E r \in 1..Len(book) :
           /\ lower(book[r].name) = lower(lastArgs[1])
           /\ Len(book[r].phones) = 2
           /\ book[r].phones[1] = lastArgs[2]
    /\ result.kind = "str" /\ result.val[1] = "Error: "

----------------------------------------------------------------------------
(* C10 *)

\* C10: no two records have names that are equal case-insensitively.
C10_NamesUnique ==
    \A i, j \in 1..Len(book) :
        i # j => lower(book[i].name) # lower(book[j].name)

\* add under another spelling of an existing name, in a book of two records,
\* has created no third record
C10_Witness ==
    /\ lastCmd = "add" /\ Len(lastArgs) >= 2
    /\ Len(prevBook) = 2
    /\ Len(book) = 2
    /\ \E i \in 1..Len(book) :
           /\ book[i].name # lastArgs[1]
           /\ lower(book[i].name) = lower(lastArgs[1])

====
